---- MODULE Spec2Model ----
(***************************************************************************)
(* photo-date-bench: the batch run of image-processing/src/lib.rs          *)
(* (run_image_processing and the worker task process_image), the output-   *)
(* number seeding and the date resolution it relies on.                    *)
(*                                                                         *)
(* A file name is a sequence of characters, each character a one-letter    *)
(* string, so that extension/stem splitting, the regular expressions and   *)
(* str::parse::<usize> are computed on the text as the code computes them. *)
(* "U+0663" stands for the single character ARABIC-INDIC DIGIT THREE, a    *)
(* character the regex class \d accepts and parse::<usize> rejects.        *)
(***************************************************************************)
EXTENDS Integers, Sequences, FiniteSets, TLC

\* ------------------------------------------------------------------ text

AsciiDigits == {"0", "1", "2", "3", "4", "5", "6", "7", "8", "9"}

\* The regex crate's \d is the Unicode class Nd (image_ops.rs:21-23, 54).
RegexDigits == AsciiDigits \cup {"U+0663"}

DigitVal(c) ==
    CASE c = "0" -> 0 [] c = "1" -> 1 [] c = "2" -> 2 [] c = "3" -> 3
      [] c = "4" -> 4 [] c = "5" -> 5 [] c = "6" -> 6 [] c = "7" -> 7
      [] c = "8" -> 8 [] c = "9" -> 9

DigitChar(v) ==
    CASE v = 0 -> "0" [] v = 1 -> "1" [] v = 2 -> "2" [] v = 3 -> "3"
      [] v = 4 -> "4" [] v = 5 -> "5" [] v = 6 -> "6" [] v = 7 -> "7"
      [] v = 8 -> "8" [] v = 9 -> "9"

\* str::to_lowercase on the characters the model's names use.
ToLower(c) ==
    CASE c = "J" -> "j" [] c = "P" -> "p" [] c = "G" -> "g"
      [] c = "E" -> "e" [] c = "N" -> "n" [] OTHER -> c

LowerStr(s) == [i \in 1..Len(s) |-> ToLower(s[i])]

AllIn(s, S) == \A i \in 1..Len(s) : s[i] \in S

SetMin(S) == CHOOSE x \in S : \A y \in S : x <= y

SetMax(S) == CHOOSE x \in S : \A y \in S : y <= x

\* format!("{number}"): the decimal text of a usize, no leading zeros.
RECURSIVE ToDec(_)
ToDec(n) == IF n < 10 THEN <<DigitChar(n)>> ELSE Append(ToDec(n \div 10), DigitChar(n % 10))

RECURSIVE DecVal(_)
DecVal(s) == IF Len(s) = 0 THEN 0 ELSE 10 * DecVal(SubSeq(s, 1, Len(s) - 1)) + DigitVal(s[Len(s)])

RECURSIVE StripZeros(_)
StripZeros(s) == IF Len(s) > 0 /\ s[1] = "0" THEN StripZeros(Tail(s)) ELSE s

\* Lexicographic <= on two digit strings of the same length.
RECURSIVE DigitsLeq(_, _)
DigitsLeq(a, b) ==
    IF Len(a) = 0 THEN TRUE
    ELSE IF DigitVal(a[1]) < DigitVal(b[1]) THEN TRUE
    ELSE IF DigitVal(a[1]) > DigitVal(b[1]) THEN FALSE
    ELSE DigitsLeq(Tail(a), Tail(b))

\* usize::MAX on the 64-bit targets the application is built for: 2^64 - 1.
UsizeMaxDigits ==
    <<"1", "8", "4", "4", "6", "7", "4", "4", "0", "7",
      "3", "7", "0", "9", "5", "5", "1", "6", "1", "5">>

FitsUsize(digits) ==
    LET d == StripZeros(digits)
    IN  \/ Len(d) < Len(UsizeMaxDigits)
        \/ Len(d) = Len(UsizeMaxDigits) /\ DigitsLeq(d, UsizeMaxDigits)

\* str::parse::<usize>(): an optional leading '+', then one or more ASCII
\* digits whose value does not exceed usize::MAX (Err otherwise).
ParseUsizeOk(s) ==
    LET body == IF Len(s) > 0 /\ s[1] = "+" THEN Tail(s) ELSE s
    IN  Len(body) > 0 /\ AllIn(body, AsciiDigits) /\ FitsUsize(body)

ParseUsizeVal(s) ==
    LET body == IF Len(s) > 0 /\ s[1] = "+" THEN Tail(s) ELSE s
    IN  DecVal(body)

\* ------------------------------------------------------------ std::path

DotPositions(name) == {i \in 1..Len(name) : name[i] = "."}

\* Position of the '.' that splits stem from extension, 0 when there is no
\* extension: no '.', or the only '.' is the first character (".jpg").
SplitDot(name) ==
    LET ds == DotPositions(name)
    IN  IF ds = {} \/ SetMax(ds) = 1 THEN 0 ELSE SetMax(ds)

HasExtension(name) == SplitDot(name) # 0

Extension(name) == SubSeq(name, SplitDot(name) + 1, Len(name))

FileStem(name) == IF HasExtension(name) THEN SubSeq(name, 1, SplitDot(name) - 1) ELSE name

\* --------------------------------------------------------- image_ops.rs

Ext_jpg == <<"j", "p", "g">>
Ext_jpeg == <<"j", "p", "e", "g">>
Ext_png == <<"p", "n", "g">>
DotJpg == <<".", "j", "p", "g">>

is_image_file(name) ==
    /\ HasExtension(name)
    /\ LowerStr(Extension(name)) \in {Ext_jpg, Ext_jpeg, Ext_png}

\* Regex ^(\d+)\.jpg$ : does it match, and its capture group 1.
NumberJpgMatches(name) ==
    /\ Len(name) > Len(DotJpg)
    /\ SubSeq(name, Len(name) - Len(DotJpg) + 1, Len(name)) = DotJpg
    /\ AllIn(SubSeq(name, 1, Len(name) - Len(DotJpg)), RegexDigits)

NumberJpgGroup(name) == SubSeq(name, 1, Len(name) - Len(DotJpg))

\* The loop keeping the number it saw last instead of the largest.
MaxStepLast(max_num, entry) ==
    IF /\ entry.kind = "file"
       /\ NumberJpgMatches(entry.name)
       /\ ParseUsizeOk(NumberJpgGroup(entry.name))
    THEN ParseUsizeVal(NumberJpgGroup(entry.name))
    ELSE max_num

\* image_ops.rs:57-66: one iteration of the loop, on a directory entry.
MaxStep(max_num, entry) ==
    IF /\ entry.kind = "file"
       /\ NumberJpgMatches(entry.name)
       /\ ParseUsizeOk(NumberJpgGroup(entry.name))
    THEN IF ParseUsizeVal(NumberJpgGroup(entry.name)) > max_num
         THEN ParseUsizeVal(NumberJpgGroup(entry.name)) ELSE max_num
    ELSE max_num

\* find_max_number_jpg over the entries WalkDir yields, in walk order.
RECURSIVE find_max_number_jpg(_)
find_max_number_jpg(walk) ==
    IF Len(walk) = 0 THEN 0
    ELSE MaxStep(find_max_number_jpg(SubSeq(walk, 1, Len(walk) - 1)), walk[Len(walk)])

DateSeps == {"-", "_", "."}

\* (20\d{2})(\d{2})(\d{2}) matching at position i.
Re1At(name, i) ==
    /\ i + 7 <= Len(name)
    /\ name[i] = "2" /\ name[i + 1] = "0"
    /\ \A k \in 2..7 : name[i + k] \in RegexDigits

\* (20\d{2})[-_.](\d{2})[-_.](\d{2}) matching at position i.
Re2At(name, i) ==
    /\ i + 9 <= Len(name)
    /\ name[i] = "2" /\ name[i + 1] = "0"
    /\ \A k \in {2, 3, 5, 6, 8, 9} : name[i + k] \in RegexDigits
    /\ name[i + 4] \in DateSeps /\ name[i + 7] \in DateSeps

\* (\d{2})[.](\d{2})[.](20\d{2}) matching at position i.
Re3At(name, i) ==
    /\ i + 9 <= Len(name)
    /\ \A k \in {0, 1, 3, 4, 8, 9} : name[i + k] \in RegexDigits
    /\ name[i + 2] = "." /\ name[i + 5] = "."
    /\ name[i + 6] = "2" /\ name[i + 7] = "0"

\* Regex::captures: the leftmost match, 0 when there is none.
Re1Find(name) ==
    LET S == {i \in 1..Len(name) : Re1At(name, i)} IN IF S = {} THEN 0 ELSE SetMin(S)

Re2Find(name) ==
    LET S == {i \in 1..Len(name) : Re2At(name, i)} IN IF S = {} THEN 0 ELSE SetMin(S)

Re3Find(name) ==
    LET S == {i \in 1..Len(name) : Re3At(name, i)} IN IF S = {} THEN 0 ELSE SetMin(S)

\* format!("{}-{}-{}", a, b, c)
DashJoin(a, b, c) == a \o <<"-">> \o b \o <<"-">> \o c

NoDate == <<>>

\* The separator pattern tried before the 8-digit one, and DD.MM.YYYY not
\* turned round.
date_from_filename_reordered(name) ==
    LET i1 == Re1Find(name)
        i2 == Re2Find(name)
        i3 == Re3Find(name)
    IN  IF i2 # 0
        THEN DashJoin(SubSeq(name, i2, i2 + 3), SubSeq(name, i2 + 5, i2 + 6),
                      SubSeq(name, i2 + 8, i2 + 9))
        ELSE IF i1 # 0
        THEN DashJoin(SubSeq(name, i1, i1 + 3), SubSeq(name, i1 + 4, i1 + 5),
                      SubSeq(name, i1 + 6, i1 + 7))
        ELSE IF i3 # 0
        THEN DashJoin(SubSeq(name, i3, i3 + 1), SubSeq(name, i3 + 3, i3 + 4),
                      SubSeq(name, i3 + 6, i3 + 9))
        ELSE NoDate

\* date_from_filename: None is NoDate, Some(s) is the text s = "YYYY-MM-DD".
date_from_filename(name) ==
    LET i1 == Re1Find(name)
        i2 == Re2Find(name)
        i3 == Re3Find(name)
    IN  IF i1 # 0
        THEN DashJoin(SubSeq(name, i1, i1 + 3), SubSeq(name, i1 + 4, i1 + 5),
                      SubSeq(name, i1 + 6, i1 + 7))
        ELSE IF i2 # 0
        THEN DashJoin(SubSeq(name, i2, i2 + 3), SubSeq(name, i2 + 5, i2 + 6),
                      SubSeq(name, i2 + 8, i2 + 9))
        ELSE IF i3 # 0
        THEN DashJoin(SubSeq(name, i3 + 6, i3 + 9), SubSeq(name, i3 + 3, i3 + 4),
                      SubSeq(name, i3, i3 + 1))
        ELSE NoDate

\* ---------------------------------------------------------------- lib.rs

\* The test made on the whole file name instead of its stem.
filename_with_extension_is_number(name) == ParseUsizeOk(name)

\* lib.rs:315-321
filename_is_number_only(name) == ParseUsizeOk(FileStem(name))

\* ----------------------------------------------------------- parse_exif.rs

\* What reading the file's metadata can come to (std::fs and the exif crate):
\*   OpenErr      File::open fails
\*   ContainerErr read_from_container fails (no Exif block, unknown format)
\*   NoField      no DateTimeOriginal field, or its value is not Ascii
\*   EmptyAscii   an Ascii value holding no string: dates[0] is out of range
\*   BadUtf8      String::from_utf8 fails
\*   Unparseable  strptime("%Y:%m:%d %H:%M:%S") fails
\*   Parsed       strptime succeeds
ExifOutcomes ==
    {"OpenErr", "ContainerErr", "NoField", "EmptyAscii", "BadUtf8", "Unparseable", "Parsed"}

\* The capture date the model's readable metadata holds, as "YYYY-MM-DD".
ExifDate == <<"2", "0", "2", "4", "-", "0", "3", "-", "1", "5">>

Res(tag, err, date, path) == [tag |-> tag, err |-> err, date |-> date, path |-> path]

\* get_image_date: Err(e), Ok(None) ("None"), Ok(Some(date)) or a panic.
get_image_date(exif) ==
    CASE exif = "OpenErr"      -> Res("Err", "Io", NoDate, <<>>)
      [] exif = "ContainerErr" -> Res("Err", "Exif", NoDate, <<>>)
      [] exif = "NoField"      -> Res("None", "", NoDate, <<>>)
      [] exif = "EmptyAscii"   -> Res("Panic", "", NoDate, <<>>)
      [] exif = "BadUtf8"      -> Res("Err", "Utf8Parse", NoDate, <<>>)
      [] exif = "Unparseable"  -> Res("None", "", NoDate, <<>>)
      [] exif = "Parsed"       -> Res("Some", "", ExifDate, <<>>)

\* parse_exif.rs:11: how often get_image_date opens the file for reading.
SourceOpens(exif) == IF exif = "OpenErr" THEN 0 ELSE 1

\* parse_image_date: Ok(date), Err(e) (the ? on get_image_date, or
\* NoParsibleDate(path)), or the panic of get_image_date.
\* A date is held as the text "YYYY-MM-DD" that date_from_filename of
\* image_ops.rs builds, whichever of the two sources it comes from.
parse_image_date(name, exif) ==
    LET meta == get_image_date(exif)
    IN  CASE meta.tag = "Err"   -> meta
          [] meta.tag = "Panic" -> meta
          [] meta.tag = "None"  ->
                IF date_from_filename(name) # NoDate
                THEN Res("Ok", "", date_from_filename(name), <<>>)
                ELSE Res("Err", "NoParsibleDate", NoDate, name)
          [] meta.tag = "Some"  -> Res("Ok", "", meta.date, <<>>)

\* date.strftime("%Y%m%d") of a date held as "YYYY-MM-DD".
DateFolder(date) == SubSeq(date, 1, 4) \o SubSeq(date, 6, 7) \o SubSeq(date, 9, 10)

\* ------------------------------------------------------ bounds and inputs

MaxFiles == 2       \* files of the source tree in one run
MaxThreads == 2     \* worker threads of the pool
MaxExternal == 1    \* files another process creates in the target during the run
MaxFaults == 1      \* operations of a worker task that the environment lets fail in one run

N_a == <<"a", "_", "2", "0", "2", "4", "0", "1", "0", "1", ".", "j", "p", "g">>
N_b == <<"b", ".", "j", "p", "g">>
N_12 == <<"1", "2", ".", "j", "p", "g">>
N_7bare == <<"7">>
N_album == <<"a", "l", "b", "u", "m">>
\* 20240101123045123456.jpg : a timestamp name above usize::MAX
N_stamp ==
    <<"2", "0", "2", "4", "0", "1", "0", "1", "1", "2", "3", "0", "4", "5",
      "1", "2", "3", "4", "5", "6", ".", "j", "p", "g">>
N_3 == <<"3", ".", "j", "p", "g">>

SrcEntry(name, kind) == [name |-> name, kind |-> kind]

SourcePool ==
    << SrcEntry(N_a, "file"), SrcEntry(N_b, "file"), SrcEntry(N_12, "file"),
       SrcEntry(N_stamp, "file"), SrcEntry(N_7bare, "file"), SrcEntry(N_album, "dir") >>

Root == <<>>

Old == [k |-> "old", of |-> <<>>, n |-> 0]
External == [k |-> "external", of |-> <<>>, n |-> 0]
NoData == [k |-> "none", of |-> <<>>, n |-> 0]
SrcData(name) == [k |-> "source", of |-> name, n |-> 0]
PartialData(name) == [k |-> "partial", of |-> name, n |-> 0]
JpegData(name, n) == [k |-> "jpeg", of |-> name, n |-> n]

Entry(dir, name, kind, data) == [dir |-> dir, name |-> name, kind |-> kind, data |-> data]

D1 == <<"2", "0", "2", "4", "0", "1", "0", "1">>
N_7 == <<"7", ".", "j", "p", "g">>
N_012 == <<"0", "1", "2", ".", "j", "p", "g">>
N_9 == <<"9", ".", "j", "p", "g">>
N_8png == <<"8", ".", "p", "n", "g">>
N_10JPG == <<"1", "0", ".", "J", "P", "G">>
N_notanumber == <<"n", "o", "t", "a", "n", "u", "m", "b", "e", "r", ".", "j", "p", "g">>
N_arabic3 == <<"U+0663", ".", "j", "p", "g">>
N_1 == <<"1", ".", "j", "p", "g">>

\* What the target tree may hold before the run. 9.jpg is a directory, and
\* so is 1.jpg in the folder 20240101.
TargetPool ==
    << Entry(Root, N_3, "file", Old), Entry(D1, N_7, "file", Old),
       Entry(Root, N_notanumber, "file", Old), Entry(D1, N_012, "file", Old),
       Entry(Root, N_9, "dir", NoData), Entry(Root, N_stamp, "file", Old),
       Entry(Root, N_arabic3, "file", Old), Entry(Root, N_8png, "file", Old),
       Entry(D1, N_10JPG, "file", Old), Entry(D1, N_1, "dir", NoData) >>

\* How many entries of TargetPool the runs of Spec draw their target from.
RunTargets == 1

\* The subsequence of pool at the indices I, in pool order.
RECURSIVE Pick(_, _)
Pick(pool, I) ==
    IF Len(pool) = 0 THEN <<>>
    ELSE IF Len(pool) \in I
         THEN Append(Pick(SubSeq(pool, 1, Len(pool) - 1), I), pool[Len(pool)])
         ELSE Pick(SubSeq(pool, 1, Len(pool) - 1), I)

RECURSIVE Reverse(_)
Reverse(q) == IF Len(q) = 0 THEN <<>> ELSE Append(Reverse(Tail(q)), Head(q))

Range(q) == {q[i] : i \in 1..Len(q)}

SourceChoices ==
    {Pick(SourcePool, I) : I \in {J \in SUBSET (1..Len(SourcePool)) : Cardinality(J) <= MaxFiles}}

TargetChoices == {Range(Pick(TargetPool, I)) : I \in SUBSET (1..RunTargets)}

SeedTargetChoices == {Range(Pick(TargetPool, I)) : I \in SUBSET (1..Len(TargetPool))}

\* ------------------------------------------------------------------ state

VARIABLES
    source,     \* the source tree as WalkDir yields it: a sequence of entries
    target,     \* the target tree: a set of entries (dir, name, kind, data)
    cache,      \* the scratch (cache) directory: a set of entries
    threads,    \* work_cpus
    proj_dirs,  \* whether ProjectDirs::from finds the cache directory
    runPc,      \* where run_image_processing is
    runResult,  \* what run_image_processing returned
    start,      \* the local `number` of lib.rs:82, the starting number
    number,     \* the shared AtomicUsize of lib.rs:113
    images,     \* the work list
    di,         \* index in images of the next file of the dispatch loop
    queue,      \* jobs the pool holds and no worker has taken, oldest first
    task,       \* per file of images: the state of its task
    grants,     \* the order in which fetch_add was served: a sequence of task ids
    faults,     \* how many operations of the environment have failed
    externals,  \* how many files another process has created in the target
    call,       \* a direct call of one function: its arguments
    ret,        \* what that call returned
    emit_progress,  \* whether the build has the feature "emit-progress"
    events,     \* the calls of emit so far, in order
    complete    \* the shared AtomicUsize of lib.rs:120

vars ==
    <<source, target, cache, threads, proj_dirs, runPc, runResult, start, number, images,
      di, queue, task, grants, faults, externals, call, ret, emit_progress, events, complete>>

\* What the orchestrator leaves alone, and what a worker task leaves alone.
runFrame ==
    <<source, threads, proj_dirs, cache, grants, faults, externals, call, ret, emit_progress,
      complete>>
taskFrame ==
    <<source, threads, proj_dirs, runPc, runResult, start, images, di, call, ret,
      emit_progress>>
callFrame ==
    <<source, target, cache, threads, proj_dirs, runPc, runResult, start, number, images,
      di, queue, task, grants, faults, externals, emit_progress, events, complete>>
\* The progress channel, for the steps that do not report.
silent == <<events, complete>>

TaskRes(tag, err, src, dst) == [tag |-> tag, err |-> err, src |-> src, dst |-> dst]

NoRes == TaskRes("None", "", <<>>, <<>>)

\* opens: how often the source path was opened for reading; comp: the value
\* the task read from `complete`.
NewTask ==
    [pc |-> "none", n |-> 0, date |-> NoDate, res |-> NoRes, rm_failed |-> FALSE,
     opens |-> 0, comp |-> 0]

NoCall == [op |-> "none", name |-> <<>>, exif |-> ""]

Pending == [done |-> FALSE, res |-> Res("None", "", NoDate, <<>>)]
Returning(r) == [done |-> TRUE, res |-> r]
\* Option<String> of date_from_filename as a result value.
OptionOf(date) == Res(IF date = NoDate THEN "None" ELSE "Some", "", date, <<>>)

Entered(src, tgt, th, pd, pc, c, feature) ==
    /\ source = src
    /\ target = tgt
    /\ cache = {}
    /\ threads = th
    /\ proj_dirs = pd
    /\ runPc = pc
    /\ runResult = Res("None", "", NoDate, <<>>)
    /\ start = 0
    /\ number = 0
    /\ images = <<>>
    /\ di = 1
    /\ queue = <<>>
    /\ task = <<>>
    /\ grants = <<>>
    /\ faults = 0
    /\ externals = 0
    /\ call = c
    /\ ret = Pending
    /\ emit_progress = feature
    /\ events = <<>>
    /\ complete = 0

\* The build without the feature "emit-progress".
Parked(src, tgt, th, pd, pc, c) == Entered(src, tgt, th, pd, pc, c, FALSE)

\* The state in which run_image_processing is entered.
InitRun(src, tgt, th, pd) == Parked(src, tgt, th, pd, "fonts", NoCall)

Init ==
    \E src \in SourceChoices, tgt \in TargetChoices, th \in 0..MaxThreads, pd \in BOOLEAN :
        InitRun(src, tgt, th, pd)

\* ------------------------------------------------------------ file system

Exists(fs, dir, name) == \E e \in fs : e.dir = dir /\ e.name = name

Without(fs, dir, name) == {e \in fs : ~(e.dir = dir /\ e.name = name)}

\* File::create + write: the path now holds data, whatever it held before.
PutFile(fs, dir, name, data) == Without(fs, dir, name) \cup {Entry(dir, name, "file", data)}

\* fs::create_dir_all: nothing changes when the directory is there already.
MakeDir(fs, dir, name) ==
    IF Exists(fs, dir, name) THEN fs ELSE fs \cup {Entry(dir, name, "dir", NoData)}

DataAt(fs, dir, name) == (CHOOSE e \in fs : e.dir = dir /\ e.name = name).data

\* fs::remove_file: the file is gone when the call succeeds.
RemoveFile(fs, name, ok) == IF ok THEN Without(fs, Root, name) ELSE fs

\* Orders in which WalkDir may yield a tree (the order is the file system's).
WalkOrders(fs) ==
    LET ascending == Pick(TargetPool, {i \in 1..Len(TargetPool) : TargetPool[i] \in fs})
    IN  {ascending, Reverse(ascending)}

\* ---------------------------------------------------- the progress channel

\* One call of emit: the event, the file whose closure made the call (0 for
\* the orchestrator), its payload, and whether the sink took it.
Event(name, by, arg, ok) == [name |-> name, by |-> by, arg |-> arg, ok |-> ok]

FailedEmits == Cardinality({k \in 1..Len(events) : ~events[k].ok})

\* photobench.rs:14-19, send_event: what app.emit can come to. Without the
\* feature there is no call; a failure is one of the MaxFaults the
\* environment has.
EmitOutcomes ==
    IF emit_progress /\ FailedEmits + faults < MaxFaults THEN BOOLEAN ELSE {TRUE}

\* The log after emit(name, arg) (#[cfg(feature = "emit-progress")]).
Emitted(name, by, arg, ok) ==
    IF emit_progress THEN Append(events, Event(name, by, arg, ok)) ELSE events

\* A sink whose error ends the caller.
AfterEmitChecked(next, ok) == IF ok THEN next ELSE "finish"

\* photobench.rs:16-18: an Err of app.emit is logged; the caller goes on.
AfterEmit(next, ok) == next

\* ------------------------------------------------ run_image_processing

Returned(r) ==
    /\ runPc' = "returned"
    /\ runResult' = r

\* lib.rs:75-76: load_bold_font()?, load_arial_bold()?
RunLoadFonts ==
    /\ runPc = "fonts"
    /\ \E ok \in BOOLEAN :
          IF ok
          THEN runPc' = "seed" /\ UNCHANGED runResult
          ELSE Returned(Res("Err", "InvalidFont", NoDate, <<>>))
    /\ UNCHANGED <<events, runFrame, target, start, number, images, di, queue, task>>

\* lib.rs:82: let number = max_num + 1
SeedOf(max_num) == max_num + 1

\* lib.rs:81-83: the starting number, from the target tree as it is walked.
RunSeed ==
    /\ runPc = "seed"
    /\ \E walk \in WalkOrders(target) : start' = SeedOf(find_max_number_jpg(walk))
    /\ runPc' = "scan"
    /\ UNCHANGED <<events, runFrame, runResult, target, number, images, di, queue, task>>

\* lib.rs:90-105: whether the loop pushes the entry on the work list.
Collected(entry) ==
    /\ entry.kind = "file"
    /\ is_image_file(entry.name)
    /\ ~filename_is_number_only(entry.name)

RECURSIVE Collect(_)
Collect(walk) ==
    IF Len(walk) = 0 THEN <<>>
    ELSE IF Collected(Head(walk)) THEN <<Head(walk).name>> \o Collect(Tail(walk))
    ELSE Collect(Tail(walk))

\* lib.rs:88-105: the scan of the source tree.
RunScan ==
    /\ runPc = "scan"
    /\ images' = Collect(source)
    /\ runPc' = "pool"
    /\ UNCHANGED <<events, runFrame, runResult, target, start, number, di, queue, task>>

\* lib.rs:110-120: ThreadPool::new(work_cpus) panics when work_cpus is 0;
\* the counter is created holding the starting number, the total is reported.
RunPool ==
    /\ runPc = "pool"
    /\ IF threads = 0
       THEN runPc' = "panicked" /\ UNCHANGED <<task, number, events>>
       ELSE /\ \E ok \in EmitOutcomes :
                  /\ events' = Emitted("process-file-total", 0, Len(images), ok)
                  /\ runPc' = AfterEmit("dispatch", ok)
            /\ number' = start
            /\ task' = [i \in 1..Len(images) |-> NewTask]
    /\ UNCHANGED <<runFrame, runResult, target, start, images, di, queue>>

\* lib.rs:121-161: one iteration of the dispatch loop, for images[di].
RunDispatch ==
    /\ runPc = "dispatch"
    /\ di <= Len(images)
    /\ \E exif \in ExifOutcomes, mkdir_ok \in BOOLEAN :
          LET r == parse_image_date(images[di], exif)
              folder == DateFolder(r.date)
              opened == [task EXCEPT ![di] = [@ EXCEPT !.opens = @ + SourceOpens(exif)]]
          IN  CASE r.tag = "Err" ->
                     /\ Returned(r)
                     /\ task' = opened
                     /\ UNCHANGED <<target, di, queue>>
                [] r.tag = "Panic" ->
                     /\ runPc' = "panicked"
                     /\ task' = opened
                     /\ UNCHANGED <<runResult, target, di, queue>>
                [] r.tag = "Ok" /\ ~mkdir_ok ->
                     /\ Returned(Res("Err", "Io", NoDate, <<>>))
                     /\ task' = opened
                     /\ UNCHANGED <<target, di, queue>>
                [] r.tag = "Ok" /\ mkdir_ok ->
                     /\ \A e \in target : e.dir = Root /\ e.name = folder => e.kind = "dir"
                     /\ target' = MakeDir(target, Root, folder)
                     /\ queue' = Append(queue, di)
                     /\ task' = [opened EXCEPT ![di] = [@ EXCEPT !.pc = "queued", !.date = r.date]]
                     /\ di' = di + 1
                     /\ UNCHANGED <<runPc, runResult>>
    /\ UNCHANGED <<events, runFrame, start, number, images>>

\* lib.rs:121,161: the loop ends when the work list is exhausted.
RunDispatchEnd ==
    /\ runPc = "dispatch"
    /\ di > Len(images)
    /\ runPc' = "join"
    /\ UNCHANGED <<events, runFrame, runResult, target, start, number, images, di, queue, task>>

\* lib.rs:163-168: tp.join() returns when no job is queued or active; the
\* completion is reported; Ok(()).
RunJoin ==
    /\ runPc = "join"
    /\ queue = <<>>
    /\ \A i \in DOMAIN task : task[i].pc = "done"
    /\ \E ok \in EmitOutcomes :
          /\ events' = Emitted("process-complete", 0, 0, ok)
          /\ runPc' = AfterEmit("returned", ok)
    /\ runResult' = Res("Ok", "", NoDate, <<>>)
    /\ UNCHANGED <<runFrame, target, start, number, images, di, queue, task>>

\* ------------------------------------------------------ the worker task

Active(i) == task[i].pc \notin {"none", "queued", "done"}

ActiveCount == Cardinality({i \in DOMAIN task : Active(i)})

CacheIn(n) == ToDec(n) \o DotJpg

\* A staged output whose name does not carry the number.
CacheOutShared(n) == <<"o", "u", "t">> \o DotJpg

CacheOut(n) == ToDec(n) \o <<"_", "o", "u", "t">> \o DotJpg

\* lib.rs:182-183: out_dir.join(format!("{number}.jpg")), as (directory, name).
OutDir(i) == DateFolder(task[i].date)

OutName(n) == ToDec(n) \o DotJpg

SetTask(i, pc, res) == task' = [task EXCEPT ![i] = [@ EXCEPT !.pc = pc, !.res = res]]

\* A failed file put back to take another number.
ReturnRetry(i, res) == SetTask(i, "fetch", res)

\* A return of process_image: the closure goes on to its end (lib.rs:147-152).
Return(i, res) == SetTask(i, "finish", res)

\* The same after File::open(path) of lib.rs:201 has opened the source.
ReturnOpened(i, res) ==
    task' = [task EXCEPT ![i] = [@ EXCEPT !.pc = "finish", !.res = res, !.opens = @ + 1]]

\* The same, recording whether a remove_file of the task has failed.
ReturnRm(i, res, failed) ==
    task' = [task EXCEPT ![i] = [@ EXCEPT !.pc = "finish", !.res = res, !.rm_failed = failed]]

IoErr(i) == TaskRes("Err", "Io", images[i], <<>>)

ImageErr(i) == TaskRes("Err", "Image", images[i], <<>>)

\* The environment lets `count` more operations fail, within MaxFaults.
Failing(count) ==
    /\ faults + count <= MaxFaults
    /\ faults' = faults + count

Cost(failed) == IF failed THEN 1 ELSE 0

\* A pool that hands out the newest job first.
NextJobNewest(q) == q[Len(q)]

\* threadpool: the job an idle worker takes is the oldest one queued.
NextJob(q) == Head(q)

\* lib.rs:137-145: a worker takes the job and starts the closure, which
\* reports the file.
TaskBegin(i) ==
    /\ task[i].pc = "queued"
    /\ queue # <<>> /\ NextJob(queue) = i
    /\ ActiveCount < threads
    /\ queue' = SelectSeq(queue, LAMBDA j : j # i)
    /\ \E ok \in EmitOutcomes :
          /\ events' = Emitted("process-file", i, images[i], ok)
          /\ SetTask(i, AfterEmit("fetch", ok), NoRes)
    /\ UNCHANGED <<taskFrame, target, cache, number, grants, faults, externals, complete>>

\* A counter whose increment is lost.
FetchAddLost(cur) == cur

\* AtomicUsize::fetch_add(1, SeqCst): the value stored.
FetchAddStore(cur) == cur + 1

\* lib.rs:179: let number = number.fetch_add(1, SeqCst)
TaskFetch(i) ==
    /\ task[i].pc = "fetch"
    /\ task' = [task EXCEPT ![i] = [@ EXCEPT !.pc = "check", !.n = number]]
    /\ number' = FetchAddStore(number)
    /\ grants' = Append(grants, i)
    /\ UNCHANGED <<silent, taskFrame, target, cache, queue, faults, externals>>

\* The check made against the target root instead of the date folder.
OutPathExistsInRoot(i) == Exists(target, Root, ToDec(task[i].n) \o DotJpg)

\* lib.rs:185: out_path.exists()
OutPathExists(i) == Exists(target, OutDir(i), OutName(task[i].n))

\* ProjectDirs::from giving None taken for an error of the file.
SkipAsError(i) == IoErr(i)

\* lib.rs:190-193: ProjectDirs::from gives None: logged, return Ok(()).
SkipResult(i) == TaskRes("Ok", "", <<>>, <<>>)

\* lib.rs:182-197: the collision check, the cache directory.
TaskCheck(i) ==
    /\ task[i].pc = "check"
    /\ \E mk_ok \in BOOLEAN :
          IF OutPathExists(i)
          THEN /\ Return(i, TaskRes("Err", "OutNumberExists", images[i],
                                    <<OutDir(i), OutName(task[i].n)>>))
               /\ Failing(0)
          ELSE IF ~proj_dirs
          THEN /\ Return(i, SkipResult(i))
               /\ Failing(0)
          ELSE IF ~mk_ok
          THEN /\ Return(i, IoErr(i))
               /\ Failing(1)
          ELSE /\ SetTask(i, "stage", NoRes)
               /\ Failing(0)
    /\ UNCHANGED <<silent, taskFrame, target, cache, number, queue, grants, externals>>

\* lib.rs:199-204: File::open(path)?, File::create(cache_file_path)?, io::copy?
TaskStage(i) ==
    /\ task[i].pc = "stage"
    /\ \E stop \in {"open", "create", "copy", "no"} :
          /\ Failing(Cost(stop # "no"))
          /\ CASE stop = "open" ->
                    /\ Return(i, IoErr(i))
                    /\ UNCHANGED cache
               [] stop = "create" ->
                    /\ ReturnOpened(i, IoErr(i))
                    /\ UNCHANGED cache
               [] stop = "copy" ->
                    /\ ReturnOpened(i, IoErr(i))
                    /\ cache' = PutFile(cache, Root, CacheIn(task[i].n), PartialData(images[i]))
               [] stop = "no" ->
                    /\ task' = [task EXCEPT ![i] = [@ EXCEPT !.pc = "decode", !.opens = @ + 1]]
                    /\ cache' = PutFile(cache, Root, CacheIn(task[i].n), SrcData(images[i]))
    /\ UNCHANGED <<silent, taskFrame, target, number, queue, grants, externals>>

\* lib.rs:206-254: image::open(&cache_file_path)?, then the composition in memory.
TaskDecode(i) ==
    /\ task[i].pc = "decode"
    /\ \E ok \in BOOLEAN :
          /\ Failing(Cost(~ok))
          /\ IF ok THEN SetTask(i, "encode", NoRes) ELSE Return(i, ImageErr(i))
    /\ UNCHANGED <<silent, taskFrame, target, cache, number, queue, grants, externals>>

\* lib.rs:256-266: File::create(&cache_out_file)?, encode_image?
TaskEncode(i) ==
    /\ task[i].pc = "encode"
    /\ \E stop \in {"create", "encode", "no"} :
          /\ Failing(Cost(stop # "no"))
          /\ CASE stop = "create" ->
                    /\ Return(i, IoErr(i))
                    /\ UNCHANGED cache
               [] stop = "encode" ->
                    /\ Return(i, ImageErr(i))
                    /\ cache' = PutFile(cache, Root, CacheOut(task[i].n), PartialData(images[i]))
               [] stop = "no" ->
                    /\ SetTask(i, "commit", NoRes)
                    /\ cache' = PutFile(cache, Root, CacheOut(task[i].n),
                                        JpegData(images[i], task[i].n))
    /\ UNCHANGED <<silent, taskFrame, target, number, queue, grants, externals>>

\* A copy that leaves out the end of the staged output.
CommitDataCutShort(i) == PartialData(images[i])

\* lib.rs:272-275: what io::copy puts at out_path: the staged output's bytes.
CommitData(i) == DataAt(cache, Root, CacheOut(task[i].n))

\* lib.rs:268-275: remove the staged input (an error is logged), then
\* File::open(&cache_out_file)?, File::create(&out_path)?, io::copy?
TaskCommit(i) ==
    /\ task[i].pc = "commit"
    /\ \E rm_ok \in BOOLEAN, stop \in {"open", "create", "copy", "no"} :
          /\ Failing(Cost(~rm_ok) + Cost(stop # "no"))
          /\ cache' = RemoveFile(cache, CacheIn(task[i].n), rm_ok)
          /\ CASE stop \in {"open", "create"} ->
                    /\ ReturnRm(i, IoErr(i), ~rm_ok)
                    /\ UNCHANGED target
               [] stop = "copy" ->
                    /\ ReturnRm(i, IoErr(i), ~rm_ok)
                    /\ target' = PutFile(target, OutDir(i), OutName(task[i].n),
                                         PartialData(images[i]))
               [] stop = "no" ->
                    /\ task' = [task EXCEPT ![i] = [@ EXCEPT !.pc = "cleanup",
                                                              !.rm_failed = ~rm_ok]]
                    /\ target' = PutFile(target, OutDir(i), OutName(task[i].n), CommitData(i))
    /\ UNCHANGED <<silent, taskFrame, number, queue, grants, externals>>

\* The Err of remove_file handed on with ?.
CleanupResultPropagated(i, rm_ok) ==
    IF rm_ok
    THEN TaskRes("Ok", "", images[i], <<OutDir(i), OutName(task[i].n)>>)
    ELSE IoErr(i)

\* lib.rs:277-289: an Err of remove_file is logged only; Ok(()).
CleanupResult(i, rm_ok) == TaskRes("Ok", "", images[i], <<OutDir(i), OutName(task[i].n)>>)

\* lib.rs:277-289: remove the staged output (an error is logged), Ok(()).
TaskCleanup(i) ==
    /\ task[i].pc = "cleanup"
    /\ \E rm_ok \in BOOLEAN :
          /\ Failing(Cost(~rm_ok))
          /\ cache' = RemoveFile(cache, CacheOut(task[i].n), rm_ok)
          /\ ReturnRm(i, CleanupResult(i, rm_ok), task[i].rm_failed \/ ~rm_ok)
    /\ UNCHANGED <<silent, taskFrame, target, number, queue, grants, externals>>

\* The value after the addition, as an add-then-fetch would return it.
AddFetchReturned(cur) == cur + 1

\* AtomicUsize::fetch_add(1, SeqCst): the value returned, the one before.
FetchAddReturned(cur) == cur

\* lib.rs:154: (comp as f32 / total as f32) * 100f32, held as the quotient
\* num / den that the f32 approximates.
Pct(comp, total) == [num |-> 100 * comp, den |-> total]

\* lib.rs:147-155: the closure logs an Err of process_image; without the
\* feature it ends here and the worker is idle again, with it the closure
\* counts the file: complete.fetch_add(1, SeqCst).
TaskEnd(i) ==
    /\ task[i].pc = "finish"
    /\ IF emit_progress
       THEN /\ task' = [task EXCEPT ![i] = [@ EXCEPT !.pc = "emit_progress",
                                                        !.comp = FetchAddReturned(complete)]]
            /\ complete' = FetchAddStore(complete)
       ELSE /\ task' = [task EXCEPT ![i] = [@ EXCEPT !.pc = "done"]]
            /\ UNCHANGED complete
    /\ UNCHANGED <<taskFrame, target, cache, number, queue, grants, faults, externals, events>>

\* lib.rs:154-156: emit("process-progress", pct), pct from the count read.
TaskEmitProgress(i) ==
    /\ task[i].pc = "emit_progress"
    /\ \E ok \in EmitOutcomes :
          /\ events' = Emitted("process-progress", i, Pct(task[i].comp, Len(images)), ok)
          /\ task' = [task EXCEPT ![i] = [@ EXCEPT !.pc = AfterEmit("emit_done", ok)]]
    /\ UNCHANGED <<taskFrame, target, cache, number, queue, grants, faults, externals, complete>>

\* lib.rs:158-160: emit("process-file-done", fname); the closure ends.
TaskEmitDone(i) ==
    /\ task[i].pc = "emit_done"
    /\ \E ok \in EmitOutcomes :
          /\ events' = Emitted("process-file-done", i, images[i], ok)
          /\ task' = [task EXCEPT ![i] = [@ EXCEPT !.pc = AfterEmit("done", ok)]]
    /\ UNCHANGED <<taskFrame, target, cache, number, queue, grants, faults, externals, complete>>

\* ------------------------------------------------------- the environment

\* Numbers whose output path a task of the run is about to test or write.
NumbersInUse ==
    {number} \cup
    {task[i].n : i \in {j \in DOMAIN task :
                          task[j].pc \in {"check", "stage", "decode", "encode", "commit"}}}

\* Another process creates <k>.jpg in a folder of the target while the run is
\* past its seeding.
ExternalCreate ==
    /\ runPc \in {"dispatch", "join"}
    /\ externals < MaxExternal
    /\ \E e \in target, k \in NumbersInUse :
          /\ e.kind = "dir" /\ e.dir = Root
          /\ ~Exists(target, e.name, OutName(k))
          /\ target' = PutFile(target, e.name, OutName(k), External)
    /\ externals' = externals + 1
    /\ UNCHANGED <<silent, taskFrame, cache, number, queue, task, grants, faults>>

Next ==
    \/ RunLoadFonts
    \/ RunSeed
    \/ RunScan
    \/ RunPool
    \/ RunDispatch
    \/ RunDispatchEnd
    \/ RunJoin
    \/ \E i \in DOMAIN task : TaskBegin(i)
    \/ \E i \in DOMAIN task : TaskFetch(i)
    \/ \E i \in DOMAIN task : TaskCheck(i)
    \/ \E i \in DOMAIN task : TaskStage(i)
    \/ \E i \in DOMAIN task : TaskDecode(i)
    \/ \E i \in DOMAIN task : TaskEncode(i)
    \/ \E i \in DOMAIN task : TaskCommit(i)
    \/ \E i \in DOMAIN task : TaskCleanup(i)
    \/ \E i \in DOMAIN task : TaskEnd(i)
    \/ ExternalCreate

Spec == Init /\ [][Next]_vars

\* --------------------------------------- the build with "emit-progress"

\* Runs of the files a_20240101.jpg and b.jpg into an empty target, with the
\* progress channel.
InitEvents ==
    \E I \in SUBSET (1..2), th \in 1..MaxThreads, pd \in BOOLEAN :
        Entered(Pick(SourcePool, I), {}, th, pd, "fonts", NoCall, TRUE)

NextEvents ==
    \/ Next
    \/ \E i \in DOMAIN task : TaskEmitProgress(i)
    \/ \E i \in DOMAIN task : TaskEmitDone(i)

SpecEvents == InitEvents /\ [][NextEvents]_vars

\* ------------------------- a date folder that holds a directory <n>.jpg

\* Runs of a_20240101.jpg and b.jpg into a target whose folder 20240101
\* holds the directory 1.jpg, with or without the file 3.jpg beside it.
InitDirs ==
    \E I \in SUBSET (1..2), J \in SUBSET {1}, th \in 1..MaxThreads :
        InitRun(Pick(SourcePool, I),
                Range(Pick(TargetPool, J)) \cup {Entry(D1, N_1, "dir", NoData)}, th, TRUE)

SpecDirs == InitDirs /\ [][Next]_vars

\* ------------------------------------- the seeding under a richer target

\* Runs of one file on one worker, over every subset of TargetPool.
InitSeed ==
    \E tgt \in SeedTargetChoices : InitRun(<<SourcePool[1]>>, tgt, 1, TRUE)

SpecSeed == InitSeed /\ [][Next]_vars

\* ------------------------------------------ the date functions, called alone

N_ymd_sep == <<"2", "0", "2", "5", "-", "1", "2", "-", "2", "4", ".", "j", "p", "g">>
N_ymd_mixed == <<"2", "0", "2", "5", "_", "1", "2", ".", "2", "4", ".", "p", "n", "g">>
N_dmy == <<"2", "4", ".", "1", "2", ".", "2", "0", "2", "5", ".", "j", "p", "g">>
\* 2024-01-01_20251224.jpg : the separator form first, the 8-digit form later
N_sep_then_8 ==
    <<"2", "0", "2", "4", "-", "0", "1", "-", "0", "1", "_",
      "2", "0", "2", "5", "1", "2", "2", "4", ".", "j", "p", "g">>
\* 24.12.2025_2023-05-06.jpg : DD.MM.YYYY first, the separator form later
N_dmy_then_sep ==
    <<"2", "4", ".", "1", "2", ".", "2", "0", "2", "5", "_",
      "2", "0", "2", "3", "-", "0", "5", "-", "0", "6", ".", "j", "p", "g">>
N_1999 == <<"1", "9", "9", "9", "1", "2", "2", "4", ".", "j", "p", "g">>
N_9digits == <<"1", "2", "0", "2", "5", "1", "2", "2", "4", ".", "j", "p", "g">>
N_short == <<"2", "0", "2", "5", "-", "1", "-", "2", ".", "j", "p", "g">>
N_month13 == <<"2", "0", "2", "5", "1", "3", "9", "9", ".", "j", "p", "g">>
\* 02.01.2024_03.04.2025.jpg : two DD.MM.YYYY dates
N_two_dmy ==
    <<"0", "2", ".", "0", "1", ".", "2", "0", "2", "4", "_",
      "0", "3", ".", "0", "4", ".", "2", "0", "2", "5", ".", "j", "p", "g">>

\* An 8-digit date whose year is written with two ARABIC-INDIC DIGIT THREE
N_arabic_year == <<"2", "0", "U+0663", "U+0663", "1", "2", "2", "4", ".", "j", "p", "g">>

DateNames ==
    {N_a, N_b, N_stamp, N_ymd_sep, N_ymd_mixed, N_dmy, N_sep_then_8, N_dmy_then_sep,
     N_1999, N_9digits, N_short, N_month13, N_two_dmy, N_arabic_year}

FnCalls ==
    {[op |-> "parse_image_date", name |-> n, exif |-> x] : n \in DateNames, x \in ExifOutcomes}
    \cup {[op |-> "date_from_filename", name |-> n, exif |-> ""] : n \in DateNames}

InitFn ==
    \E c \in FnCalls : Parked(<<>>, {}, 1, TRUE, "off", c)

\* lib.rs:323-333 called on call.name, the metadata reading as call.exif.
CallParseImageDate ==
    /\ call.op = "parse_image_date"
    /\ ret = Pending
    /\ ret' = Returning(parse_image_date(call.name, call.exif))
    /\ UNCHANGED <<callFrame, call>>

\* image_ops.rs:15-35 called on call.name.
CallDateFromFilename ==
    /\ call.op = "date_from_filename"
    /\ ret = Pending
    /\ ret' = Returning(OptionOf(date_from_filename(call.name)))
    /\ UNCHANGED <<callFrame, call>>

NextFn == CallParseImageDate \/ CallDateFromFilename

SpecFn == InitFn /\ [][NextFn]_vars

\* ------------------------------------------- the composition, called alone

\* lib.rs:43-45,50
WIDTH_CM == 8
HEIGHT_CM == 6
DPI == 300
MARGIN_MM == 5

\* f32::round of num/den for naturals: halves go away from zero.
RoundDiv(num, den) == (2 * num + den) \div (2 * den)

\* The same where the quotient is computed in floating point as a product
\* with a rounded ratio: a value that is exactly a half may come out just
\* below it.
RoundOutcomes(num, den) ==
    IF (2 * num) % (2 * den) = den
    THEN {RoundDiv(num, den) - 1, RoundDiv(num, den)}
    ELSE {RoundDiv(num, den)}

\* integer division of Rust: towards zero.
TruncDiv(a, b) == IF a >= 0 THEN a \div b ELSE -((-a) \div b)

Max2(a, b) == IF a >= b THEN a ELSE b

\* lib.rs:54-56: ((mm / 25.4) * DPI).round() as u32
mm_to_px(mm) == RoundDiv(mm * DPI * 10, 254)

\* lib.rs:58-60: ((cm / 2.54) * DPI).round() as u32
cm_to_px(cm) == RoundDiv(cm * DPI * 100, 254)

TARGET_W == cm_to_px(WIDTH_CM)
TARGET_H == cm_to_px(HEIGHT_CM)
MARGIN_PX == mm_to_px(MARGIN_MM)

\* The larger of the two ratios taken (fill = true): the image covers the
\* target instead of fitting in it.
resize_dimensions_fill(w, h, nwidth, nheight) ==
    IF nwidth * h >= nheight * w
    THEN {<<Max2(nwidth, 1), Max2(nh, 1)>> : nh \in RoundOutcomes(h * nwidth, w)}
    ELSE {<<Max2(nw, 1), Max2(nheight, 1)>> : nw \in RoundOutcomes(w * nheight, h)}

\* DynamicImage::resize (image crate, resize_dimensions with fill = false):
\* the smaller of the two ratios scales both sides, each side rounded and at
\* least 1.
resize_dimensions(w, h, nwidth, nheight) ==
    IF nwidth * h <= nheight * w
    THEN {<<Max2(nwidth, 1), Max2(nh, 1)>> : nh \in RoundOutcomes(h * nwidth, w)}
    ELSE {<<Max2(nw, 1), Max2(nheight, 1)>> : nw \in RoundOutcomes(w * nheight, h)}

\* An image handed on as it is.
resize_skipped(w, h, target_w, target_h) == {<<w, h>>}

\* image_ops.rs:78-84: the sizes the result can have.
resize_to_fit(w, h, target_w, target_h) ==
    IF w <= target_w /\ h <= target_h
    THEN {<<w, h>>}
    ELSE resize_dimensions(w, h, target_w, target_h)

\* lib.rs:221-222: ((TARGET as i32 - r as i32) / 2).max(0) as u32
Offset(canvas, photo) == Max2(TruncDiv(canvas - photo, 2), 0)

\* lib.rs:224: GenericImage::copy_from fails when the photo does not fit.
copy_from(rw, rh, x, y) ==
    IF TARGET_W < rw + x \/ TARGET_H < rh + y THEN "Err" ELSE "Ok"

\* name.split("_")
RECURSIVE SplitUnderscore(_)
SplitUnderscore(s) ==
    LET cuts == {k \in 1..Len(s) : s[k] = "_"}
    IN  IF cuts = {} THEN <<s>>
        ELSE <<SubSeq(s, 1, SetMin(cuts) - 1)>>
                 \o SplitUnderscore(SubSeq(s, SetMin(cuts) + 1, Len(s)))

\* lib.rs:311-313: format!("Foto Nr.: {number}")
default_number_text(n) ==
    <<(<<"F", "o", "t", "o", " ", "N", "r", ".", ":", " ">> \o ToDec(n))>>

\* A byte that is not part of any UTF-8 text, as a character of a name.
InvalidByte == "0xFF"

\* OsStr::to_str is Some
IsUtf8(name) == \A k \in 1..Len(name) : name[k] # InvalidByte

\* The label followed by every chunk that is not empty.
format_filename_unfiltered(name, n) ==
    default_number_text(n) \o SelectSeq(SplitUnderscore(name), LAMBDA x : Len(x) > 0)

\* lib.rs:293-309: the label alone for a name that is not UTF-8; otherwise
\* the label, then the chunks of the name that do not start with an ASCII
\* digit (an empty chunk has no first character).
format_filename_as_image_text(name, n) ==
    IF ~IsUtf8(name)
    THEN default_number_text(n)
    ELSE default_number_text(n)
             \o SelectSeq(SplitUnderscore(name),
                          LAMBDA x : Len(x) > 0 /\ x[1] \notin AsciiDigits)

\* draw_text.rs:75-79: (max(height * 0.04, 12.0) * 1.2).round() as u32
line_spacing(height) == RoundDiv(Max2(4 * height, 1200) * 12, 1000)

\* draw_text.rs:83: line_spacing * 3 + 10, whatever the number of lines.
tmp_h(height) == line_spacing(height) * 3 + 10

\* draw_text.rs:84-90: the scratch bitmap and the row each line is drawn
\* at; draw_text_mut leaves out every pixel outside the bitmap.
draw_multiline_text(lines, height) ==
    [lines |-> lines,
     tmp_h |-> tmp_h(height),
     y     |-> [i \in 1..Len(lines) |-> (i - 1) * line_spacing(height)]]

MaxPhotoW == 4000
MaxPhotoH == 3000

PhotoWidths ==
    {1, 2, TARGET_W - 1, TARGET_W, TARGET_W + 1, 2 * TARGET_W, 2 * TARGET_W + 1, MaxPhotoW}
PhotoHeights ==
    {1, 2, 299, 300, TARGET_H - 1, TARGET_H, TARGET_H + 1, 2 * TARGET_H, MaxPhotoH}

\* urlaub_am_meer.jpg
N_urlaub ==
    <<"u", "r", "l", "a", "u", "b", "_", "a", "m", "_", "m", "e", "e", "r", ".", "j", "p", "g">>
\* IMG_holiday_beach_sunset.jpg
N_holiday ==
    <<"I", "M", "G", "_", "h", "o", "l", "i", "d", "a", "y", "_", "b", "e", "a", "c", "h", "_",
      "s", "u", "n", "s", "e", "t", ".", "j", "p", "g">>
\* __x_2024_.jpg : empty chunks and chunks that start with a digit
N_gaps == <<"_", "_", "x", "_", "2", "0", "2", "4", "_", ".", "j", "p", "g">>

\* <0xFF>_strand.jpg : a name that is not UTF-8
N_badbyte == <<InvalidByte, "_", "s", "t", "r", "a", "n", "d", ".", "j", "p", "g">>

CaptionNames == {N_a, N_b, N_stamp, N_urlaub, N_holiday, N_gaps, N_arabic3, N_badbyte}

ComposeCall(op, name, w, h, n) == [op |-> op, name |-> name, w |-> w, h |-> h, n |-> n]

ComposeCalls ==
    {ComposeCall("place", <<>>, w, h, 0) : w \in PhotoWidths, h \in PhotoHeights}
    \cup {ComposeCall("caption", name, 0, h, n) :
              name \in CaptionNames, h \in {x \in PhotoHeights : x <= TARGET_H}, n \in {1, 12}}

InitCompose ==
    \E c \in ComposeCalls : Parked(<<>>, {}, 1, TRUE, "off", c)

\* lib.rs:211-224 for a decoded image of call.w x call.h pixels.
CallPlacePhoto ==
    /\ call.op = "place"
    /\ ~ret.done
    /\ \E r \in resize_to_fit(call.w, call.h, TARGET_W, TARGET_H) :
          LET offset_x == Offset(TARGET_W, r[1])
              offset_y == Offset(TARGET_H, r[2])
          IN  ret' = Returning([rw |-> r[1], rh |-> r[2],
                                offset_x |-> offset_x, offset_y |-> offset_y,
                                copy |-> copy_from(r[1], r[2], offset_x, offset_y)])
    /\ UNCHANGED <<callFrame, call>>

\* lib.rs:249-254 with draw_text.rs:74-90 for the file name call.name, the
\* number call.n and a photo of call.h rows.
CallDrawCaption ==
    /\ call.op = "caption"
    /\ ~ret.done
    /\ ret' = Returning(draw_multiline_text(format_filename_as_image_text(call.name, call.n),
                                            call.h))
    /\ UNCHANGED <<callFrame, call>>

NextCompose == CallPlacePhoto \/ CallDrawCaption

SpecCompose == InitCompose /\ [][NextCompose]_vars

\* ------------------------------------------------ the text, drawn alone

\* A subtraction that goes below zero.
PlainSub(a, b) == a - b

\* u32::saturating_sub
SaturatingSub(a, b) == IF a >= b THEN a - b ELSE 0

\* draw_text.rs:82
tmp_w == 2000

\* draw_text.rs:119-139: where the glyph block is put on the destination.
TextPosition(position, photo_w, photo_h, offset_x, offset_y, text_w, text_h) ==
    IF position = "TopLeft"
    THEN <<offset_x + MARGIN_PX, offset_y + MARGIN_PX>>
    ELSE <<offset_x + SaturatingSub(photo_w, text_w + MARGIN_PX),
           offset_y + SaturatingSub(photo_h, text_h + MARGIN_PX)>>

NoInk == [found |-> FALSE, w |-> 0, h |-> 0]

\* draw_text.rs:86-109: the lines that can leave ink in the scratch bitmap
\* are those that have a character and are drawn at a row inside it.
InkLines(lines, height) ==
    {i \in 1..Len(lines) :
        Len(lines[i]) > 0 /\ draw_multiline_text(lines, height).y[i] < tmp_h(height)}

\* draw_text.rs:92-116: the bounding box of the non-transparent pixels.
\* Whether a character leaves ink, and how much, is the font's; without a
\* line that can leave ink there is none.
InkOutcomes(lines, height) ==
    IF InkLines(lines, height) = {}
    THEN {NoInk}
    ELSE {NoInk} \cup {[found |-> TRUE, w |-> w, h |-> h] :
                          w \in {1, 60, tmp_w}, h \in {1, tmp_h(height)}}

\* A block of one transparent pixel overlaid when there is no ink.
OverlaysPlaceholder(ink, pos) ==
    IF ink.found
    THEN <<[x |-> pos[1], y |-> pos[2], w |-> ink.w, h |-> ink.h]>>
    ELSE <<[x |-> pos[1], y |-> pos[2], w |-> 1, h |-> 1]>>

\* draw_text.rs:111-139: return when nothing was found, otherwise one call
\* of overlay_premul_rgba_on_rgb with the cropped block.
Overlays(ink, pos) ==
    IF ink.found
    THEN <<[x |-> pos[1], y |-> pos[2], w |-> ink.w, h |-> ink.h]>>
    ELSE <<>>

\* image_ops.rs:141-143: (src + dst * (1.0 - a)).round().clamp(0.0, 255.0),
\* a = alpha / 255.
BlendChannel(sp, dp, alpha) ==
    LET out == RoundDiv(sp * 255 + dp * (255 - alpha), 255)
    IN  IF out > 255 THEN 255 ELSE out

\* A blend that takes the destination at full weight.
BlendPixelAdditive(sp, dp) ==
    <<BlendChannel(sp[1], dp[1], 0), BlendChannel(sp[2], dp[2], 0),
      BlendChannel(sp[3], dp[3], 0)>>

\* image_ops.rs:137-145: the pixel put at the destination.
BlendPixel(sp, dp) ==
    <<BlendChannel(sp[1], dp[1], sp[4]), BlendChannel(sp[2], dp[2], sp[4]),
      BlendChannel(sp[3], dp[3], sp[4])>>

\* An image as its width, its height and its pixels by <<x, y>>.
Image(w, h, px) == [w |-> w, h |-> h, px |-> px]

Coords(w, h) == (0..(w - 1)) \X (0..(h - 1))

\* image_ops.rs:126-149: the destination after the loops. A pixel of dst is
\* written when a pixel of src with alpha above 0 comes to lie on it.
overlay_premul_rgba_on_rgb(dst, src, x, y) ==
    LET over(q) == {sq \in Coords(src.w, src.h) :
                        /\ x + sq[1] = q[1] /\ y + sq[2] = q[2]
                        /\ src.px[sq][4] > 0}
    IN  Image(dst.w, dst.h,
              [q \in Coords(dst.w, dst.h) |->
                  IF over(q) = {} THEN dst.px[q]
                  ELSE BlendPixel(src.px[CHOOSE sq \in over(q) : TRUE], dst.px[q])])

\* The sides of the canvases and blocks of the overlay calls.
DstSide == 2
MaxSrcSide == 3

Yellow == <<255, 255, 84, 255>>
HalfYellow == <<128, 128, 42, 128>>
FaintYellow == <<1, 1, 0, 1>>
Transparent == <<0, 0, 0, 0>>

\* A white canvas with one pixel of another colour.
DstCanvas ==
    Image(DstSide, DstSide,
          [q \in Coords(DstSide, DstSide) |->
              IF q = <<0, 0>> THEN <<200, 100, 7>> ELSE <<255, 255, 255>>])

\* Glyph blocks as draw_text_mut leaves them (colour times coverage): one
\* opaque pixel; a square of every coverage; a row wider than the canvas.
SrcBlocks ==
    {Image(1, 1, [q \in Coords(1, 1) |-> Yellow]),
     Image(2, 2, [q \in Coords(2, 2) |->
                     CASE q = <<0, 0>> -> HalfYellow
                       [] q = <<1, 0>> -> Transparent
                       [] q = <<0, 1>> -> FaintYellow
                       [] OTHER        -> Yellow]),
     Image(MaxSrcSide, 1, [q \in Coords(MaxSrcSide, 1) |->
                     IF q[1] = 0 THEN HalfYellow ELSE Yellow])}

\* Lines handed to draw_multiline_text: none, empty ones, the date, captions.
DrawLines ==
    {<<>>, <<<<>>>>, <<<<>>, <<>>>>, <<<<>>, <<>>, <<>>, <<>>, <<"x">>>>,
     <<<<"1", "5", " ", "0", "3", " ", "2", "0", "2", "4">>>>,
     format_filename_as_image_text(N_b, 1),
     format_filename_as_image_text(N_holiday, 12)}

\* Sizes of the photo on the canvas (lib.rs:226-237).
PhotoSizes == {<<1, 1>>, <<TARGET_W, 1>>, <<60, TARGET_H>>, <<TARGET_W, 300>>, <<TARGET_W, TARGET_H>>}

DrawCalls ==
    {[op |-> "draw", lines |-> l, position |-> pos, photo |-> ph] :
        l \in DrawLines, pos \in {"TopLeft", "BottomRight"}, ph \in PhotoSizes}
    \cup {[op |-> "overlay", dst |-> DstCanvas, src |-> b, x |-> x, y |-> y] :
              b \in SrcBlocks, x \in 0..DstSide, y \in 0..DstSide}

InitDraw ==
    \E c \in DrawCalls : Parked(<<>>, {}, 1, TRUE, "off", c)

\* draw_text.rs:60-140 on the canvas of lib.rs:215-237: a photo of
\* call.photo centred on TARGET_W x TARGET_H, the margin MARGIN_PX.
CallDrawMultilineText ==
    /\ call.op = "draw"
    /\ ~ret.done
    /\ \E ink \in InkOutcomes(call.lines, call.photo[2]) :
          LET offset_x == Offset(TARGET_W, call.photo[1])
              offset_y == Offset(TARGET_H, call.photo[2])
              pos == TextPosition(call.position, call.photo[1], call.photo[2],
                                  offset_x, offset_y, ink.w, ink.h)
          IN  ret' = Returning([ink |-> ink, offset_x |-> offset_x, offset_y |-> offset_y,
                                overlays |-> Overlays(ink, pos)])
    /\ UNCHANGED <<callFrame, call>>

\* image_ops.rs:126-149 on a canvas of DstSide x DstSide pixels.
CallOverlay ==
    /\ call.op = "overlay"
    /\ ~ret.done
    /\ ret' = Returning(overlay_premul_rgba_on_rgb(call.dst, call.src, call.x, call.y))
    /\ UNCHANGED <<callFrame, call>>

NextDraw == CallDrawMultilineText \/ CallOverlay

SpecDraw == InitDraw /\ [][NextDraw]_vars

\* ------------------------------------------------------------- properties

\* Tasks that have taken their number from the counter.
Fetched == {i \in DOMAIN task : task[i].pc \notin {"none", "queued", "fetch"}}

Ended(i) == task[i].pc \in {"finish", "done"}

InCache(name) == \E e \in cache : e.name = name

\* C1: the numbers the tasks have obtained from the counter are exactly
\* start, start+1, ..., start+N-1 for the N tasks that have obtained one: no
\* number is granted twice and none in the range is left out.
C1_GrantsContiguous ==
    {task[i].n : i \in Fetched} = start..(start + Cardinality(Fetched) - 1)

\* Two tasks hold a number while both are in process_image.
C1_TwoConcurrentGrants ==
    \E i, j \in Fetched : i # j /\ task[i].pc = "check" /\ task[j].pc = "check"

\* C2: whatever fails for one file, the run attempts every file of the work
\* list and returns Ok (a font failure apart, which C8 is about).
C2_EveryFileAttempted ==
    (runPc = "returned" /\ runResult.err # "InvalidFont")
        => /\ runResult.tag = "Ok"
           /\ \A i \in 1..Len(images) : task[i].pc = "done"

\* C3: once a task has ended, and no remove_file of it has failed, neither
\* <n>.jpg nor <n>_out.jpg of that task is left in the scratch directory.
C3_ScratchCleanAfterTask ==
    \A i \in Fetched :
        (Ended(i) /\ ~task[i].rm_failed)
            => ~InCache(ToDec(task[i].n) \o DotJpg)
               /\ ~InCache(ToDec(task[i].n) \o <<"_", "o", "u", "t">> \o DotJpg)

\* The output path of task i, and whether the target holds something there.
OutPathOf(i) == <<DateFolder(task[i].date), ToDec(task[i].n) \o DotJpg>>

AtOutPath(fs, i) == {e \in fs : <<e.dir, e.name>> = OutPathOf(i)}

\* C4: when the claimed <n>.jpg is already in the output folder, the task
\* returns OutNumberExists(source path, destination path), takes no second
\* number, stages nothing, and the file that was there stays as it is.
C4_CollisionIsFatalForTheFile ==
    [][\A i \in DOMAIN task :
          /\ (task[i].pc = "check" /\ task'[i].pc # "check" /\ AtOutPath(target, i) # {})
                => /\ task'[i].pc = "finish"
                   /\ task'[i].res = TaskRes("Err", "OutNumberExists", images[i], OutPathOf(i))
                   /\ number' = number /\ cache' = cache /\ target' = target
          /\ task[i].res.err = "OutNumberExists"
                => /\ AtOutPath(target', i) = AtOutPath(target, i)
                   /\ Cardinality({k \in 1..Len(grants') : grants'[k] = i}) = 1
                   /\ ~InCache(ToDec(task[i].n) \o DotJpg)'
                   /\ ~InCache(ToDec(task[i].n) \o <<"_", "o", "u", "t">> \o DotJpg)'
      ]_vars

\* A task has returned OutNumberExists and the run has gone on to its end.
C4_CollisionSeen ==
    /\ runPc = "returned"
    /\ \E i \in DOMAIN task : task[i].res.err = "OutNumberExists" /\ AtOutPath(target, i) # {}

\* C8: when the run returns an error, the fonts or the starting number are
\* the cause and no task has been dispatched.
C8_ErrorOnlyBeforeDispatch ==
    runResult.tag = "Err"
        => /\ runResult.err \in {"InvalidFont", "Regex"}
           /\ \A i \in DOMAIN task : task[i].pc = "none"

\* C9: a file enumerated before another has the smaller number.
C9_NumbersFollowDiscovery ==
    \A i, j \in Fetched : i < j => task[i].n < task[j].n

\* C9 as amended: numbers increase in the order in which the tasks take them
\* from the counter, which is the discovery order when the pool has one
\* worker thread.
C9_NumbersFollowGrants ==
    /\ threads = 1 => C9_NumbersFollowDiscovery
    /\ \A k, l \in 1..Len(grants) : k < l => task[grants[k]].n < task[grants[l]].n

\* A pool of one worker has numbered two files.
C9_OneWorkerTwoFiles == threads = 1 /\ Cardinality(Fetched) = 2

\* A name that is decimal digits, alone or followed by one extension.
BareDigits(name) ==
    IF DotPositions(name) = {} THEN name ELSE SubSeq(name, 1, SetMin(DotPositions(name)) - 1)

IsBareInteger(name) ==
    /\ Len(BareDigits(name)) > 0
    /\ AllIn(BareDigits(name), AsciiDigits)
    /\ Cardinality(DotPositions(name)) <= 1
    /\ DotPositions(name) # {Len(name)}

\* C10: no file named as a bare integer is on the work list (so none gets a
\* task or a number: tasks and numbers are given to the work list only).
C10_BareIntegersSkipped ==
    \A k \in 1..Len(images) : ~IsBareInteger(images[k])

\* C10 as amended: no file named as a bare integer that fits usize is on the
\* work list.
C10_UsizeIntegersSkipped ==
    /\ \A k \in 1..Len(images) :
          ~(IsBareInteger(images[k]) /\ FitsUsize(BareDigits(images[k])))
    /\ DOMAIN task \subseteq 1..Len(images)
    /\ Range(grants) \subseteq DOMAIN task

\* The scan has met a file named as a bare integer and the run is dispatching.
C10_BareIntegerInSource ==
    /\ runPc = "join"
    /\ Len(images) > 0
    /\ \E j \in 1..Len(source) :
          /\ source[j].kind = "file"
          /\ is_image_file(source[j].name)
          /\ IsBareInteger(source[j].name)
          /\ FitsUsize(BareDigits(source[j].name))

\* ---- C5 (SpecSeed)

\* A regular file named <digits>.jpg, and the digits of its name.
NumericJpg(e) ==
    /\ e.kind = "file"
    /\ Len(e.name) > Len(DotJpg)
    /\ SubSeq(e.name, Len(e.name) - Len(DotJpg) + 1, Len(e.name)) = DotJpg
    /\ AllIn(SubSeq(e.name, 1, Len(e.name) - Len(DotJpg)), AsciiDigits)

DigitsOf(e) == SubSeq(e.name, 1, Len(e.name) - Len(DotJpg))

\* Order and equality of the numbers two digit strings denote.
NumLess(a, b) ==
    LET x == StripZeros(a)
        y == StripZeros(b)
    IN  \/ Len(x) < Len(y)
        \/ Len(x) = Len(y) /\ x # y /\ DigitsLeq(x, y)

NumEq(a, b) == StripZeros(a) = StripZeros(b)

\* start is one more than the largest number among the files F, 1 when F is
\* empty, and it is the number the first task is granted.
SeedIsLargestPlusOne(F) ==
    /\ runPc \in {"scan", "pool"} =>
          IF F = {}
          THEN start = 1
          ELSE /\ start >= 1
               /\ \E e \in F : NumEq(DigitsOf(e), ToDec(start - 1))
               /\ \A e \in F : ~NumLess(ToDec(start - 1), DigitsOf(e))
    /\ grants # <<>> => task[grants[1]].n = start

BelowUsizeMax(digits) == FitsUsize(digits) /\ ~NumEq(digits, UsizeMaxDigits)

C6_FallsBackToFilename ==
    (call.op = "parse_image_date" /\ ret.done) =>
        IF call.exif = "Parsed"
        THEN ret.res = Res("Ok", "", ExifDate, <<>>)
        ELSE IF date_from_filename(call.name) # NoDate
        THEN ret.res = Res("Ok", "", date_from_filename(call.name), <<>>)
        ELSE ret.res = Res("Err", "NoParsibleDate", NoDate, call.name)

\* ---- C7 (SpecFn)

Window(name, i, len) == SubSeq(name, i, i + len - 1)

\* A year 20xx; a digit is what the patterns' class \d takes for one.
Is20xx(w) == w[1] = "2" /\ w[2] = "0" /\ w[3] \in RegexDigits /\ w[4] \in RegexDigits

\* YYYYMMDD
IsYmd8(w) == Is20xx(w) /\ AllIn(SubSeq(w, 5, 8), RegexDigits)

\* YYYY?MM?DD with ? one of - _ .
IsYmdSep(w) ==
    /\ Is20xx(w)
    /\ w[5] \in {"-", "_", "."}
    /\ AllIn(SubSeq(w, 6, 7), RegexDigits)
    /\ w[8] \in {"-", "_", "."}
    /\ AllIn(SubSeq(w, 9, 10), RegexDigits)

\* DD.MM.YYYY
IsDmy(w) ==
    /\ AllIn(SubSeq(w, 1, 2), RegexDigits)
    /\ w[3] = "."
    /\ AllIn(SubSeq(w, 4, 5), RegexDigits)
    /\ w[6] = "."
    /\ Is20xx(SubSeq(w, 7, 10))

Ymd8Starts(name) == {i \in 1..(Len(name) - 7) : IsYmd8(Window(name, i, 8))}
YmdSepStarts(name) == {i \in 1..(Len(name) - 9) : IsYmdSep(Window(name, i, 10))}
DmyStarts(name) == {i \in 1..(Len(name) - 9) : IsDmy(Window(name, i, 10))}

Ymd(y, m, d) == y \o <<"-">> \o m \o <<"-">> \o d

\* The result the three patterns give in their order, each on its leftmost match.
PatternDate(name) ==
    IF Ymd8Starts(name) # {}
    THEN LET w == Window(name, SetMin(Ymd8Starts(name)), 8)
         IN  OptionOf(Ymd(SubSeq(w, 1, 4), SubSeq(w, 5, 6), SubSeq(w, 7, 8)))
    ELSE IF YmdSepStarts(name) # {}
    THEN LET w == Window(name, SetMin(YmdSepStarts(name)), 10)
         IN  OptionOf(Ymd(SubSeq(w, 1, 4), SubSeq(w, 6, 7), SubSeq(w, 9, 10)))
    ELSE IF DmyStarts(name) # {}
    THEN LET w == Window(name, SetMin(DmyStarts(name)), 10)
         IN  OptionOf(Ymd(SubSeq(w, 7, 10), SubSeq(w, 4, 5), SubSeq(w, 1, 2)))
    ELSE OptionOf(NoDate)

RunFiles == cache \cup {e \in target : e.data.k \in {"source", "partial", "jpeg"}}

\* C11: when ProjectDirs::from finds no cache directory in a call of
\* process_image, the call returns Ok having created no staged file and no
\* output file, and neither the run nor another file's task is touched.
C11_SkippedWithoutCacheDir ==
    [][\A i \in DOMAIN task :
          (task[i].pc = "check" /\ task'[i].pc # "check" /\ ~proj_dirs /\ ~OutPathExists(i))
              => /\ task'[i].pc = "finish"
                 /\ task'[i].res.tag = "Ok"
                 /\ RunFiles = {} /\ RunFiles' = {}
                 /\ target' = target
                 /\ runPc' = runPc /\ runResult' = runResult /\ queue' = queue
                 /\ \A j \in DOMAIN task \ {i} : task'[j] = task[j]
      ]_vars

\* Without a cache directory a run of two files has skipped both and returned Ok.
C11_TwoFilesSkipped ==
    /\ ~proj_dirs
    /\ runPc = "returned" /\ runResult.tag = "Ok"
    /\ Len(images) = 2
    /\ \A i \in DOMAIN task : task[i].pc = "done" /\ task[i].res = SkipResult(i)

\* ---- C12 (Spec)

\* C12: when only the removal of the staged input fails, the output is still
\* copied to the destination; when the removal of the staged output fails,
\* process_image still returns Ok; the run is not ended by either.
C12_RemoveFailureNotPropagated ==
    [][\A i \in DOMAIN task :
          /\ (/\ task[i].pc = "commit" /\ task'[i].pc # "commit"
               /\ faults' = faults + 1
               /\ InCache(CacheIn(task[i].n))')
                 => /\ task'[i].pc = "cleanup"
                    /\ AtOutPath(target', i) =
                          {Entry(OutDir(i), OutName(task[i].n), "file",
                                 JpegData(images[i], task[i].n))}
          /\ (task[i].pc = "cleanup" /\ task'[i].pc # "cleanup")
                 => /\ task'[i].pc = "finish"
                    /\ task'[i].res.tag = "Ok"
                    /\ AtOutPath(target', i) # {}
          /\ (task[i].pc \in {"commit", "cleanup"} /\ task'[i] # task[i])
                 => runPc' = runPc /\ runResult' = runResult
      ]_vars

\* A task has returned Ok with its output at the destination although a
\* staged file of it could not be removed, and the run has returned Ok.
C12_LeftoverYetCommitted ==
    /\ runPc = "returned" /\ runResult.tag = "Ok"
    /\ \E i \in DOMAIN task :
          /\ task[i].rm_failed
          /\ task[i].res.tag = "Ok"
          /\ AtOutPath(target, i) # {}
          /\ InCache(CacheIn(task[i].n)) \/ InCache(CacheOut(task[i].n))

\* ---- C13 (Spec)

\* C13: when run_image_processing has returned, no task it dispatched is
\* pending or running.
C13_ReturnsAfterEveryTask ==
    runPc = "returned"
        => /\ queue = <<>>
           /\ \A i \in DOMAIN task : task[i].pc \in {"none", "done"}

\* ---- C14 (Spec)

C15_SourceOpenedOnce ==
    \A i \in DOMAIN task :
        /\ task[i].pc = "decode"
              => DataAt(cache, Root, CacheIn(task[i].n)) = SrcData(images[i])
        /\ task[i].opens <= 1
        /\ task[i].pc \in {"decode", "encode", "commit", "cleanup"} => task[i].opens = 1

\* ---- C16 (SpecEvents)

\* The steps of one file's closure, in the order of the code.
PcOrder ==
    <<"none", "queued", "fetch", "check", "stage", "decode", "encode", "commit", "cleanup",
      "finish", "emit_progress", "emit_done", "done">>

Rank(pc) == CHOOSE k \in 1..Len(PcOrder) : PcOrder[k] = pc

\* Where the caller of emit is after the call, whatever the sink answered.
AfterCall(e) ==
    CASE e.name = "process-file-total" -> runPc' = "dispatch" /\ task' = [i \in DOMAIN task' |-> NewTask]
      [] e.name = "process-complete"   -> runPc' = "returned" /\ runResult'.tag = "Ok" /\ task' = task
      [] OTHER ->
            /\ runPc' = runPc /\ runResult' = runResult
            /\ task'[e.by].pc = PcOrder[Rank(task[e.by].pc) + 1]
            /\ task'[e.by].res = task[e.by].res
            /\ \A j \in DOMAIN task \ {e.by} : task'[j] = task[j]

\* C16: a call of emit changes nothing of the processing, whether the sink
\* takes the event or fails: no file, no number, no grant, and the caller
\* (the file's closure or the run) goes on to the step after the call.
C16_EmitOutcomeIgnored ==
    [][events' # events =>
          LET e == events'[Len(events')]
          IN  /\ events' = Append(events, e)
              /\ target' = target /\ cache' = cache
              /\ grants' = grants /\ faults' = faults
              /\ number' = (IF e.name = "process-file-total" THEN start ELSE number)
              /\ AfterCall(e)
      ]_vars

\* The sink failed on a file's process-file event; the file was numbered and
\* written to the destination all the same, and the run has returned Ok.
C16_FailedEmitYetCommitted ==
    /\ runPc = "returned" /\ runResult.tag = "Ok"
    /\ \E k \in 1..Len(events) :
          /\ ~events[k].ok /\ events[k].name = "process-file"
          /\ task[events[k].by].res.tag = "Ok"
          /\ AtOutPath(target, events[k].by) # {}

\* ---- C17 (Spec)

\* Steps of process_image from which a ? or a return leaves the function.
Stoppable == {"check", "stage", "decode", "encode", "commit"}

\* Files whose bytes, whole or in part, are in the target tree.
Delivered(fs) == {e.data.of : e \in {x \in fs : x.data.k \in {"jpeg", "partial"}}}

\* C17: a file's task only moves forward, one step at a time through
\* dispatched, numbered, checked, staged, composed, encoded, committed, or it
\* stops for good from the step it is in; no file is granted a number twice;
\* and a file's output is written to the target only by the commit step,
\* which is reached only through every step before it.
C17_StepsInOrderNoRetry ==
    [][/\ \A i \in DOMAIN task :
             task'[i].pc # task[i].pc
                 => \/ Rank(task'[i].pc) = Rank(task[i].pc) + 1
                    \/ task[i].pc \in Stoppable /\ task'[i].pc = "finish"
                    \/ task[i].pc = "finish" /\ task'[i].pc = "done"
       /\ \A i \in DOMAIN task :
             task[i].pc \in {"finish", "done"} => task'[i].res = task[i].res
       /\ grants' # grants
             => \E i \in DOMAIN task :
                   /\ grants' = Append(grants, i)
                   /\ i \notin Range(grants)
                   /\ task[i].pc = "fetch"
       /\ \A i \in DOMAIN task :
             (images[i] \in Delivered(target') /\ images[i] \notin Delivered(target))
                 => task[i].pc = "commit"
      ]_vars

\* In one run a file has gone through every step to its output at the
\* destination and another has stopped with an error.
C17_OneCommittedOneFailed ==
    \E i, j \in DOMAIN task :
        /\ task[i].pc = "done" /\ task[i].res.tag = "Ok" /\ images[i] \in Delivered(target)
        /\ task[j].pc = "done" /\ task[j].res.tag = "Err"
        /\ images[j] \notin Delivered(target)

\* ---- C18 (SpecEvents)

\* Where in the log the event `name` of file `by` (0: of the run) stands.
Idx(name, by) == {k \in 1..Len(events) : events[k].name = name /\ events[k].by = by}

\* Files the dispatch loop has handed to the pool.
DispatchedFiles == {i \in DOMAIN task : task[i].pc # "none"}

\* The order of the events that are emitted.
EventsOrdered ==
    /\ \A k \in 1..Len(events) : (events[k].name = "process-file-total") <=> (k = 1)
    /\ \A i \in DOMAIN task :
          \A k \in Idx("process-progress", i) \cup Idx("process-file-done", i) :
              \E j \in Idx("process-file", i) : j < k
    /\ Cardinality(Idx("process-complete", 0)) <= 1
    /\ \A k \in Idx("process-complete", 0) :
          \A i \in DispatchedFiles : \E j \in Idx("process-file-done", i) : j < k

\* C18: process-file-total is the first event, each file's process-file
\* comes before its process-progress and its process-file-done, and a run
\* that has reported its total and has ended has emitted process-complete
\* exactly once, after the process-file-done of every dispatched file.
C18_EventsOrderedCompleteOnce ==
    /\ EventsOrdered
    /\ (runPc = "returned" /\ events # <<>>)
          => Cardinality(Idx("process-complete", 0)) = 1

\* ---- C19 (SpecCompose)

\* C19: every line of the caption is drawn at (i - 1) x line_spacing, and
\* that row is inside the scratch bitmap, whatever the number of lines.
C19_EveryLineInsideScratch ==
    (call.op = "caption" /\ ret.done)
        => \A i \in 1..Len(ret.res.lines) :
              /\ ret.res.y[i] = (i - 1) * line_spacing(call.h)
              /\ ret.res.y[i] < ret.res.tmp_h

\* ---- C20 (SpecCompose)

\* C20: on each axis the offset is max(0, floor((canvas - photo) / 2)), and
\* the photo placed at the offset lies inside the canvas, so that copy_from
\* succeeds.
C20_CenteredInsideCanvas ==
    (call.op = "place" /\ ret.done)
        => /\ ret.res.offset_x = Max2((TARGET_W - ret.res.rw) \div 2, 0)
           /\ ret.res.offset_y = Max2((TARGET_H - ret.res.rh) \div 2, 0)
           /\ ret.res.offset_x + ret.res.rw <= TARGET_W
           /\ ret.res.offset_y + ret.res.rh <= TARGET_H
           /\ ret.res.copy = "Ok"

\* A photo wider than the canvas was scaled down and is placed with a band
\* above and below it.
C20_ScaledAndCentered ==
    /\ call.op = "place" /\ ret.done
    /\ call.w > TARGET_W
    /\ ret.res.rw = TARGET_W /\ ret.res.rh < TARGET_H
    /\ ret.res.offset_x = 0 /\ ret.res.offset_y > 0

\* ---- C21 (SpecCompose)

\* C21: resize_to_fit returns an image of the source's size exactly when
\* the source is no wider and no higher than the target; otherwise the
\* result is no wider and no higher than the target, and no larger than the
\* source on either axis.
C21_UnscaledIffFitsNeverUpscaled ==
    (call.op = "place" /\ ret.done)
        => LET fits == call.w <= TARGET_W /\ call.h <= TARGET_H
               same == ret.res.rw = call.w /\ ret.res.rh = call.h
           IN  /\ fits <=> same
               /\ ret.res.rw <= TARGET_W /\ ret.res.rh <= TARGET_H
               /\ ret.res.rw <= call.w /\ ret.res.rh <= call.h
               /\ ret.res.rw >= 1 /\ ret.res.rh >= 1

\* A photo no wider than the canvas but higher than it was scaled down to
\* the canvas's height.
C21_TallPhotoScaled ==
    /\ call.op = "place" /\ ret.done
    /\ call.w <= TARGET_W /\ call.h > TARGET_H
    /\ ret.res.rh = TARGET_H /\ ret.res.rw < call.w

\* ---- C22 (SpecDraw)

\* C22: the glyph block is overlaid at photo offset + margin for TopLeft,
\* and at photo offset + max(0, photo size - (glyph size + margin)) for
\* BottomRight, on each axis; in both cases not before the photo offset.
C22_AnchoredToPhoto ==
    (call.op = "draw" /\ ret.done /\ ret.res.ink.found)
        => LET r == ret.res
               o == r.overlays[1]
           IN  /\ Len(r.overlays) = 1
               /\ o.w = r.ink.w /\ o.h = r.ink.h
               /\ o.x >= r.offset_x /\ o.y >= r.offset_y
               /\ call.position = "TopLeft"
                     => o.x = r.offset_x + MARGIN_PX /\ o.y = r.offset_y + MARGIN_PX
               /\ call.position = "BottomRight"
                     => /\ o.x = r.offset_x
                                  + Max2(call.photo[1] - (r.ink.w + MARGIN_PX), 0)
                        /\ o.y = r.offset_y
                                  + Max2(call.photo[2] - (r.ink.h + MARGIN_PX), 0)

\* A block wider than the photo less the margin, anchored bottom-right, is
\* put at the photo's left edge, and below its top edge.
C22_ClampedAtPhotoEdge ==
    /\ call.op = "draw" /\ ret.done /\ ret.res.ink.found
    /\ call.position = "BottomRight"
    /\ ret.res.ink.w + MARGIN_PX > call.photo[1]
    /\ ret.res.ink.h + MARGIN_PX < call.photo[2]
    /\ ret.res.overlays[1].x = ret.res.offset_x
    /\ ret.res.overlays[1].y > ret.res.offset_y

\* ---- C23 (SpecDraw)

\* C23: when the scratch bitmap has no pixel with alpha above 0, as it must
\* when there is no line or every line is empty, draw_multiline_text makes
\* no call that writes to the destination.
C23_NoInkNoWrite ==
    (call.op = "draw" /\ ret.done)
        => /\ ~ret.res.ink.found => ret.res.overlays = <<>>
           /\ (\A i \in 1..Len(call.lines) : call.lines[i] = <<>>) => ~ret.res.ink.found

\* draw_multiline_text has returned for two empty lines.
C23_EmptyLinesDrawn ==
    /\ call.op = "draw" /\ ret.done
    /\ call.lines = <<<<>>, <<>>>>
    /\ ret.res.overlays = <<>>

\* ---- C24 (SpecDraw)

\* C24: after overlay_premul_rgba_on_rgb a pixel of the canvas that lies
\* under a glyph pixel with alpha above 0 holds, on each channel,
\* round(src + dst x (1 - alpha / 255)) clamped to 0..255, every other pixel
\* is as before, and the canvas has kept its size: glyph pixels that come to
\* lie outside it went nowhere.
C24_OnlyCoveredPixelsBlended ==
    (call.op = "overlay" /\ ret.done)
        => /\ ret.res.w = call.dst.w /\ ret.res.h = call.dst.h
           /\ DOMAIN ret.res.px = Coords(call.dst.w, call.dst.h)
           /\ \A q \in Coords(call.dst.w, call.dst.h) :
                 LET sx == q[1] - call.x
                     sy == q[2] - call.y
                     under == /\ sx \in 0..(call.src.w - 1)
                              /\ sy \in 0..(call.src.h - 1)
                              /\ call.src.px[<<sx, sy>>][4] > 0
                     clamp(v) == IF v > 255 THEN 255 ELSE IF v < 0 THEN 0 ELSE v
                     mix(c) ==
                         LET sp == call.src.px[<<sx, sy>>]
                         IN  clamp((2 * (255 * sp[c] + call.dst.px[q][c] * (255 - sp[4])) + 255)
                                       \div 510)
                 IN  IF under
                     THEN ret.res.px[q] = <<mix(1), mix(2), mix(3)>>
                     ELSE ret.res.px[q] = call.dst.px[q]

\* A row that reaches over the canvas's right edge was overlaid at the
\* origin: the coloured pixel under its half-covered pixel is blended, the
\* white one beside it is covered, the row below is as before.
C24_BlockOverTheEdge ==
    /\ call.op = "overlay" /\ ret.done
    /\ call.x = 0 /\ call.y = 0
    /\ call.src.w = MaxSrcSide /\ call.src.w > call.dst.w
    /\ ret.res.px[<<0, 0>>] = <<228, 178, 45>>
    /\ ret.res.px[<<1, 0>>] = <<255, 255, 84>>
    /\ ret.res.px[<<0, 1>>] = <<255, 255, 255>>

\* ---- C25 (SpecCompose)

\* Where the fragments of a name start: after an underscore or at the
\* beginning, on a character that is not an underscore.
FragmentStarts(name) ==
    {k \in 1..Len(name) : name[k] # "_" /\ (k = 1 \/ name[k - 1] = "_")}

\* The fragment that starts at k: up to the next underscore or the end.
FragmentAt(name, k) ==
    SubSeq(name, k,
           SetMin({j \in k..(Len(name) + 1) : j = Len(name) + 1 \/ name[j] = "_"}) - 1)

\* The caption of a name: the label of the number, then the non-empty
\* fragments that do not start with a digit of 0..9, in the order of the name.
IsCaptionOf(lines, name, n) ==
    LET kept == {k \in FragmentStarts(name) : name[k] \notin AsciiDigits}
    IN  /\ Len(lines) = 1 + Cardinality(kept)
        /\ lines[1] = <<"F", "o", "t", "o", " ", "N", "r", ".", ":", " ">> \o ToDec(n)
        /\ \A k \in kept :
              lines[1 + Cardinality({j \in kept : j <= k})] = FragmentAt(name, k)

\* C25 as stated: for every file name the caption is the label of the
\* file's number and then exactly the non-empty fragments of the name that
\* do not start with a digit, in filename order.
C25_LabelThenFragments ==
    (call.op = "caption" /\ ret.done)
        => IsCaptionOf(ret.res.lines, call.name, call.n)

\* C25 amended: that holds for a file name that is valid UTF-8; for any
\* other name the caption is the label alone.
C25_LabelThenFragmentsOfUtf8Names ==
    (call.op = "caption" /\ ret.done)
        => IF IsUtf8(call.name)
           THEN IsCaptionOf(ret.res.lines, call.name, call.n)
           ELSE ret.res.lines = <<(<<"F", "o", "t", "o", " ", "N", "r", ".", ":", " ">>
                                      \o ToDec(call.n))>>

\* The caption of __x_2024_.jpg with the number 12: the label, x, .jpg.
C25_GapsAndDigitsLeftOut ==
    /\ call.op = "caption" /\ ret.done
    /\ call.name = N_gaps /\ call.n = 12
    /\ ret.res.lines = <<<<"F", "o", "t", "o", " ", "N", "r", ".", ":", " ", "1", "2">>,
                         <<"x">>, <<".", "j", "p", "g">>>>

\* ---- C26 (SpecDirs)

\* An entry that was in the target before the run and is named <N>.jpg, N
\* in the digits 0..9.
NumericNameAtSeeding(e) ==
    /\ e.data.k \in {"old", "none"}
    /\ Len(e.name) > Len(DotJpg)
    /\ SubSeq(e.name, Len(e.name) - Len(DotJpg) + 1, Len(e.name)) = DotJpg
    /\ AllIn(SubSeq(e.name, 1, Len(e.name) - Len(DotJpg)), AsciiDigits)

\* C26: as long as no other process has written to the target, every
\* number granted is above every <N>.jpg name the target held at seeding,
\* and no task has returned OutNumberExists.
C26_NoCollisionWithoutOthers ==
    externals = 0
        => \A i \in DOMAIN task :
              /\ task[i].res.err # "OutNumberExists"
              /\ i \in Fetched
                    => \A e \in {x \in target : NumericNameAtSeeding(x)} :
                          NumLess(DigitsOf(e), ToDec(task[i].n))

\* ---- C27 (Spec)

\* Tasks that hold a number and have not left process_image.
InFlight == {i \in DOMAIN task : task[i].pc \in {"check", "stage", "decode", "encode",
                                                  "commit", "cleanup"}}

\* The two scratch paths of a task.
ScratchPaths(i) == {CacheIn(task[i].n), CacheOut(task[i].n)}

\* C27: tasks in flight at the same time have no scratch path in common,
\* and a step of a task creates, overwrites or removes in the scratch
\* directory only that task's own <n>.jpg and <n>_out.jpg.
C27_ScratchPathsDisjoint ==
    [][/\ \A i, j \in InFlight' :
             i # j => ScratchPaths(i)' \cap ScratchPaths(j)' = {}
       /\ cache' # cache
             => \E i \in InFlight :
                   /\ task'[i] # task[i]
                   /\ \A e \in (cache' \ cache) \cup (cache \ cache') :
                         /\ e.name \in ScratchPaths(i)
                         /\ \A j \in InFlight \ {i} : e.name \notin ScratchPaths(j)
      ]_vars

\* Two tasks are in flight with their staged inputs both in the scratch
\* directory.
C27_TwoStagedAtOnce ==
    \E i, j \in InFlight :
        /\ i # j
        /\ task[i].pc \in {"decode", "encode", "commit"}
        /\ task[j].pc \in {"decode", "encode", "commit"}
        /\ InCache(CacheIn(task[i].n)) /\ InCache(CacheIn(task[j].n))

\* ---- C28 (SpecEvents)

\* Files whose closure has counted itself on `complete`.
Counted == {i \in DOMAIN task : task[i].pc \in {"emit_progress", "emit_done", "done"}}

ProgressEvents == {k \in 1..Len(events) : events[k].name = "process-progress"}

\* C28: the closure that counts itself as the k-th reads k - 1, the
\* process-progress event it then emits carries 100 x (k - 1) / total, which
\* is below 100, and no two process-progress events carry the same value.
C28_ProgressIsCountBeforeOverTotal ==
    [][/\ \A i \in DOMAIN task :
             (task[i].pc = "finish" /\ task'[i].pc = "emit_progress")
                 => task'[i].comp = Cardinality(Counted)
       /\ \A k \in ProgressEvents' :
             LET e == events'[k]
             IN  /\ e.arg.den = Len(images) /\ e.arg.den > 0
                 /\ e.arg.num = 100 * task'[e.by].comp
                 /\ e.arg.num < 100 * e.arg.den
                 /\ task'[e.by].comp = 0 <=> e.arg.num = 0
                 /\ \A m \in ProgressEvents' \ {k} :
                       e.arg.num * events'[m].arg.den # events'[m].arg.num * e.arg.den
      ]_vars

\* A run of two files has returned Ok having reported 0 and then 50.
C28_ZeroThenFifty ==
    /\ runPc = "returned" /\ runResult.tag = "Ok"
    /\ \E k, m \in ProgressEvents :
          /\ k < m
          /\ events[k].arg = Pct(0, 2)
          /\ events[m].arg = Pct(1, 2)

====
